---- MODULE Spec2Model ----
\* Draft session engine of RNGenie (src/RNGenie.py): one loot session, its
\* registry entry, its lock, its watchdog and the tasks that work on it.
EXTENDS Integers, Sequences, FiniteSets, TLC

\* ---------------------------------------------------------------- bounds
MaxMembers == 2      \* voice-channel members rolled into a session
MaxItems == 2        \* items of a session of the turn specification
MaxRound == 2        \* rounds explored before the draft is cut off
MaxPick == 2         \* options of one dropdown a select event may name
MaxWaiters == 1      \* select handlers suspended on the session lock
MaxRefresh == 1      \* refresh tasks spawned and not yet running
PagedItems == 30     \* items of a session of the paging specification
PagedPick == 1       \* the same, in a session of the paging specification
LiveItems == 1       \* items of a session of the completion specification
MaxChunk == 1        \* largest dropdown number a select event may carry
RankMembers == 3     \* voice-channel members when a ranking is drawn
MaxRoll == 2         \* random.randint(1, 100), scaled down to 1..MaxRoll
MaxFailed == 1       \* message calls that raise in one run of a refresh
DeployMembers == 3   \* participants of a session of the deploy build
SnakeMembers == 3    \* participants of a draft

\* ------------------------------------------------------ program constants
TURN_NOT_STARTED == -1
ChunkSize == 25
NoMember == 0

Users == 1..MaxMembers

Min(a, b) == IF a < b THEN a ELSE b
Max(a, b) == IF a > b THEN a ELSE b

\* str(n) and int(s) for the non-negative integers used as option values:
\* a string is the sequence of its decimal digits.
RECURSIVE str(_)
str(n) == IF n < 10 THEN <<n>> ELSE str(n \div 10) \o <<n % 10>>

RECURSIVE int(_)
int(s) == IF Len(s) = 1 THEN s[1]
          ELSE 10 * int(SubSeq(s, 1, Len(s) - 1)) + s[Len(s)]

VARIABLES
    loot_sessions,      \* TRUE while the handle is a key of loot_sessions
    rolls,              \* session["rolls"]: member ids in rank order
    dice,               \* member id -> the "roll" and "tiebreak" of its entry in session["rolls"]
    items,              \* session["items"]: index -> assigned_to
    current_turn, round, direction, just_reversed,
    selected_items,     \* session["selected_items"]: set of option values
    last_action,        \* <<>> for None, <<snapshot>> otherwise
    members_to_remove,  \* session["members_to_remove"]: set of option values
    invoker_id,
    timeout_task,       \* state of the task in session["timeout_task"]
    superseded,         \* states of the watchdog tasks that session["timeout_task"]
                        \* named before it was overwritten
    locked,             \* the session lock is held (by a refresh)
    waiters,            \* select handlers suspended in "async with lock"
    refresh_pending,    \* refresh tasks created and not yet started
    refresh_pc,         \* position of the refresh that holds the lock
    cancelling,         \* on_remove_confirm is deleting messages of an emptied session
    control_view,       \* the control message shows the remove and start controls
    loot_message,       \* the loot-list message exists in the channel
    loot_content,       \* the content of the loot-list message; while the session
                        \* is registered it is session["loot_content"],
                        \* which is written with every edit that succeeds
    control_content,    \* the content of the control message, likewise
    item_dropdown_message_id,
                        \* session["item_dropdown_message_id"]: "none" for None,
                        \* "posted" for a message in the channel, "deleted"
                        \* for the id of a message that was deleted
    control_edit,       \* view an on_remove_select is about to put on the control message
    last_op             \* the last step taken and the response it gave

session_vars == <<rolls, dice, items, current_turn, round, direction, just_reversed,
                  selected_items, last_action, members_to_remove, invoker_id>>

vars == <<loot_sessions, rolls, dice, items, current_turn, round, direction,
          just_reversed, selected_items, last_action, members_to_remove,
          invoker_id, timeout_task, superseded, locked, waiters, refresh_pending,
          refresh_pc, cancelling, control_view, loot_message, loot_content, control_content, item_dropdown_message_id, control_edit, last_op>>

\* What the last step was and what it answered; arg keeps what the step was
\* given (a select event) or what it overwrote (an assign).
NoArg == [kind |-> "none"]
Op(name, actor, response, arg) ==
    [op |-> name, actor |-> actor, response |-> response, arg |-> arg]

\* ------------------------------------------------------------ helpers
NumRolls == Len(rolls)

_are_items_left(its) == \E i \in DOMAIN its : its[i] = NoMember

\* A snake that takes a step in the new direction when it turns round.
_advance_turn_snake_stepping(its, num, turn, dir, rnd) ==
    IF ~_are_items_left(its)
    THEN [current_turn |-> num, direction |-> dir, round |-> rnd, just_reversed |-> FALSE]
    ELSE IF num = 0
    THEN [current_turn |-> turn, direction |-> dir, round |-> rnd, just_reversed |-> FALSE]
    ELSE IF turn = TURN_NOT_STARTED
    THEN [current_turn |-> 0, direction |-> dir, round |-> rnd, just_reversed |-> FALSE]
    ELSE IF 0 <= turn + dir /\ turn + dir < num
    THEN [current_turn |-> turn + dir, direction |-> dir, round |-> rnd, just_reversed |-> FALSE]
    ELSE [current_turn |-> Max(0, Min(num - 1, turn - dir)),
          direction |-> dir * (-1), round |-> rnd + 1, just_reversed |-> TRUE]

\* The fields _advance_turn_snake leaves behind, from the fields it reads.
_advance_turn_snake(its, num, turn, dir, rnd) ==
    IF ~_are_items_left(its)
    THEN [current_turn |-> num, direction |-> dir, round |-> rnd, just_reversed |-> FALSE]
    ELSE IF num = 0
    THEN [current_turn |-> turn, direction |-> dir, round |-> rnd, just_reversed |-> FALSE]
    ELSE IF turn = TURN_NOT_STARTED
    THEN [current_turn |-> 0, direction |-> dir, round |-> rnd, just_reversed |-> FALSE]
    ELSE IF 0 <= turn + dir /\ turn + dir < num
    THEN [current_turn |-> turn + dir, direction |-> dir, round |-> rnd, just_reversed |-> FALSE]
    ELSE [current_turn |-> IF num = 1 THEN 0 ELSE turn,
          direction |-> dir * (-1), round |-> rnd + 1, just_reversed |-> TRUE]

\* An advance that looks at the items as they were before the handler's
\* assignment.
Advanced_before_assignment(its) ==
    _advance_turn_snake(items, NumRolls, current_turn, direction, round)

\* _advance_turn_snake(session) as the handlers call it: on the session's
\* fields, after the handler has written the items.
Advanced(its) == _advance_turn_snake(its, NumRolls, current_turn, direction, round)

\* A deploy snake that keeps the turn where it is when it turns round.
_advance_turn_snake_deploy_staying(its, num, turn, dir, rnd) ==
    IF ~_are_items_left(its)
    THEN [current_turn |-> num, direction |-> dir, round |-> rnd, just_reversed |-> FALSE]
    ELSE IF num = 0
    THEN [current_turn |-> turn, direction |-> dir, round |-> rnd, just_reversed |-> FALSE]
    ELSE IF turn = TURN_NOT_STARTED
    THEN [current_turn |-> 0, direction |-> dir, round |-> rnd, just_reversed |-> FALSE]
    ELSE IF 0 <= turn + dir /\ turn + dir < num
    THEN [current_turn |-> turn + dir, direction |-> dir, round |-> rnd, just_reversed |-> FALSE]
    ELSE [current_turn |-> Max(0, Min(num - 1, turn)),
          direction |-> dir * (-1), round |-> rnd + 1, just_reversed |-> TRUE]

\* _advance_turn_snake of RNGenie_deploy.py: at the end of a pass the
\* direction is reversed first and the turn then takes one step in the new
\* direction, clamped to 0..num-1.
_advance_turn_snake_deploy(its, num, turn, dir, rnd) ==
    IF ~_are_items_left(its)
    THEN [current_turn |-> num, direction |-> dir, round |-> rnd, just_reversed |-> FALSE]
    ELSE IF num = 0
    THEN [current_turn |-> turn, direction |-> dir, round |-> rnd, just_reversed |-> FALSE]
    ELSE IF turn = TURN_NOT_STARTED
    THEN [current_turn |-> 0, direction |-> dir, round |-> rnd, just_reversed |-> FALSE]
    ELSE IF 0 <= turn + dir /\ turn + dir < num
    THEN [current_turn |-> turn + dir, direction |-> dir, round |-> rnd, just_reversed |-> FALSE]
    ELSE [current_turn |-> Max(0, Min(num - 1, turn + dir * (-1))),
          direction |-> dir * (-1), round |-> rnd + 1, just_reversed |-> TRUE]

Advanced_deploy(its) ==
    _advance_turn_snake_deploy(its, NumRolls, current_turn, direction, round)

\* A reset that cancels the old task and schedules none.
_reset_session_timeout_cancel_only(registered) ==
    IF registered THEN "cancelled" ELSE timeout_task

\* _reset_session_timeout: nothing without a session, else the old task is
\* cancelled and a new one is pending.
_reset_session_timeout(registered) == IF registered THEN "pending" ELSE timeout_task

\* A cancel() that does not reach the task.
cancel_ignored(task) == task

\* task.cancel() on the task in session["timeout_task"]
cancel(task) == IF task \in {"pending", "expiring"} THEN "cancelled" ELSE task

\* A reset that overwrites the reference without cancelling the task.
replaced_without_cancel(registered) ==
    IF registered /\ timeout_task # "none"
    THEN superseded \cup {timeout_task}
    ELSE superseded

\* The tasks left behind by _reset_session_timeout: the task the session
\* named is cancelled, and the session names the new task from then on.
replaced(registered) ==
    IF registered /\ timeout_task # "none"
    THEN superseded \cup {cancel(timeout_task)}
    ELSE superseded

\* asyncio.create_task(_refresh_all_messages(...))
create_task == Min(refresh_pending + 1, MaxRefresh)

\* ------------------------------------------------------------ builders
\* build_loot_list_message: the items that have no owner, each with its
\* number; the block "All Items Assigned" when there is none.
build_loot_list_message(its) == {i \in DOMAIN its : its[i] = NoMember}

\* _build_roll_lines: one line per participant with the roll, and with the
\* tiebreak when another participant of the list has the same roll.
_build_roll_lines(rls, dc) ==
    [k \in DOMAIN rls |->
        [member |-> rls[k],
         roll |-> dc[rls[k]].roll,
         tiebreak |-> IF \E j \in DOMAIN rls : j # k /\ dc[rls[j]].roll = dc[rls[k]].roll
                      THEN <<dc[rls[k]].tiebreak>> ELSE <<>>]]

\* build_control_panel_message: the roll order, the items of every
\* participant, and the round and direction while a participant is picking
\* (the text "ready" otherwise). The header that names the owner is the
\* same in every content of a session.
build_control_panel_message(rls, dc, its, turn, dir, rnd) ==
    [roll_block |-> _build_roll_lines(rls, dc),
     assigned_block |-> [k \in DOMAIN rls |-> {i \in DOMAIN its : its[i] = rls[k]}],
     indicator |-> IF 0 <= turn /\ turn < Len(rls)
                   THEN <<rnd + 1, dir = 1>> ELSE <<>>]

\* build_final_summary_message: the roll order, the items of every
\* participant and the items nobody has, under a header that says whether
\* the session timed out.
build_final_summary_message(rls, dc, its, timed_out) ==
    [header |-> IF timed_out THEN "timed_out" ELSE "assigned",
     roll_block |-> _build_roll_lines(rls, dc),
     assigned_block |-> [k \in DOMAIN rls |-> {i \in DOMAIN its : its[i] = rls[k]}],
     unclaimed_block |-> {i \in DOMAIN its : its[i] = NoMember}]

\* The notice on_remove_confirm leaves on the control message of a session
\* without participants.
CancelledNotice == [header |-> "cancelled"]

\* No control message, and the content of a message that was deleted.
NoMessage == [header |-> "none"]
Deleted == {-1}

\* ------------------------------------------------------------ Init
\* The state LootModal.callback leaves behind: a ranked roster that contains
\* the invoker, every item unassigned, the watchdog scheduled and the first
\* refresh spawned.
InitSession(n, m) ==
    /\ loot_sessions = TRUE
    /\ rolls = [k \in 1..n |-> k]
    /\ dice = [k \in 1..n |-> [roll |-> n + 1 - k, tiebreak |-> <<>>]]
    /\ items = [i \in 0..(m - 1) |-> NoMember]
    /\ current_turn = TURN_NOT_STARTED
    /\ round = 0
    /\ direction = 1
    /\ just_reversed = FALSE
    /\ selected_items = {}
    /\ last_action = <<>>
    /\ members_to_remove = {}
    /\ timeout_task = "pending"
    /\ superseded = {}
    /\ locked = FALSE
    /\ waiters = <<>>
    /\ refresh_pending = 1
    /\ refresh_pc = "idle"
    /\ cancelling = FALSE
    /\ control_view = TRUE
    /\ loot_message = TRUE
    /\ loot_content = build_loot_list_message(items)
    /\ control_content =
           build_control_panel_message(rolls, dice, items, current_turn,
                                       direction, round)
    /\ item_dropdown_message_id = "none"
    /\ control_edit = "none"
    /\ last_op = Op("create", 0, "ok", NoArg)

Init ==
    \E n \in 1..MaxMembers :
        /\ InitSession(n, MaxItems)
        /\ invoker_id \in 1..n

\* The dice of LootModal.callback: every member draws a roll, and every member
\* whose roll is shared with another member draws a tiebreak of its own.
tiebreaks(roll, tb) ==
    [m \in DOMAIN roll |->
        [roll |-> roll[m],
         tiebreak |-> IF \E k \in DOMAIN roll : k # m /\ roll[k] = roll[m]
                      THEN <<tb[m]>> ELSE <<>>]]

\* r.get("tiebreak", -1) under the roll: the key of one entry.
_sort_key(r) == <<r.roll, IF r.tiebreak = <<>> THEN -1 ELSE r.tiebreak[1]>>

\* Python's order on tuples of two integers.
TupleLess(a, b) == a[1] < b[1] \/ (a[1] = b[1] /\ a[2] < b[2])

\* rolls.sort(key=_sort_key, reverse=True): descending by key; the sort is
\* stable, so entries with equal keys keep the order of the voice channel
\* (members are numbered in that order).
sort_reverse(d) ==
    LET before(m) == {k \in DOMAIN d :
                        \/ TupleLess(_sort_key(d[m]), _sort_key(d[k]))
                        \/ (_sort_key(d[k]) = _sort_key(d[m]) /\ k < m)}
    IN [p \in 1..Cardinality(DOMAIN d) |->
           CHOOSE m \in DOMAIN d : Cardinality(before(m)) = p - 1]

\* The registries right after the module is loaded: no session yet.
InitRanking ==
    /\ loot_sessions = FALSE
    /\ rolls = <<>>
    /\ dice = <<>>
    /\ items = <<>>
    /\ current_turn = TURN_NOT_STARTED
    /\ round = 0
    /\ direction = 1
    /\ just_reversed = FALSE
    /\ selected_items = {}
    /\ last_action = <<>>
    /\ members_to_remove = {}
    /\ invoker_id = NoMember
    /\ timeout_task = "none"
    /\ superseded = {}
    /\ locked = FALSE
    /\ waiters = <<>>
    /\ refresh_pending = 0
    /\ refresh_pc = "idle"
    /\ cancelling = FALSE
    /\ control_view = FALSE
    /\ loot_message = FALSE
    /\ loot_content = Deleted
    /\ control_content = NoMessage
    /\ item_dropdown_message_id = "none"
    /\ control_edit = "none"
    /\ last_op = Op("load", 0, "ok", NoArg)

\* LootModal.callback: n members are in the owner's voice channel; the dice
\* are drawn, the entries sorted, and the session is registered with m items.
callback(n, m, roll, tb, actor) ==
    /\ ~loot_sessions
    /\ timeout_task = "none"
    /\ dice' = tiebreaks(roll, tb)
    /\ rolls' = sort_reverse(dice')
    /\ items' = [i \in 0..(m - 1) |-> NoMember]
    /\ invoker_id' = actor
    /\ loot_sessions' = TRUE
    /\ timeout_task' = _reset_session_timeout(TRUE)
    /\ superseded' = replaced(TRUE)
    /\ refresh_pending' = 1
    /\ control_view' = TRUE
    /\ loot_message' = TRUE
    /\ loot_content' = build_loot_list_message(items')
    /\ control_content' =
           build_control_panel_message(rolls', dice', items', current_turn,
                                       direction, round)
    /\ item_dropdown_message_id' = "none"
    /\ last_op' = Op("create", actor, "ok", NoArg)
    /\ UNCHANGED <<current_turn, round, direction, just_reversed, selected_items,
                   last_action, members_to_remove, locked, waiters, refresh_pc,
                   cancelling, control_edit>>

\* A refusal that schedules a watchdog.
Rejected_scheduling(name, actor, response) ==
    /\ last_op' = Op("rejected", IF response = "unauthorized" THEN actor ELSE 0,
                     response, [kind |-> "rejected", op |-> name])
    /\ timeout_task' = "pending"
    /\ superseded' = superseded
    /\ UNCHANGED <<loot_sessions, session_vars, locked, waiters,
                   refresh_pending, refresh_pc, cancelling, control_view, loot_message, loot_content, control_content, item_dropdown_message_id, control_edit>>

\* A handler that answers with an ephemeral notice and returns. The actor is
\* kept where the answer is about the actor.
Rejected(name, actor, response) ==
    /\ last_op' = Op("rejected", IF response = "unauthorized" THEN actor ELSE 0,
                     response, [kind |-> "rejected", op |-> name])
    /\ UNCHANGED <<loot_sessions, session_vars, timeout_task, superseded, locked, waiters,
                   refresh_pending, refresh_pc, cancelling, control_view, loot_message, loot_content, control_content, item_dropdown_message_id, control_edit>>

\* ------------------------------------------------------------ item picker
\* available = [(i, it) for i, it in enumerate(items) if it["assigned_to"] is None]
available(its) ==
    SelectSeq([k \in 1..Cardinality(DOMAIN its) |-> k - 1],
              LAMBDA i : its[i] = NoMember)

\* chunks = [available[i:i+25] for i in range(0, len(available), 25)]
chunks(av) ==
    [c \in 1..((Len(av) + ChunkSize - 1) \div ChunkSize) |->
        SubSeq(av, (c - 1) * ChunkSize + 1, Min(c * ChunkSize, Len(av)))]

\* A slice that takes every available item, whatever the dropdown.
possible_of_all(its, idx) ==
    LET av == available(its)
    IN {str(av[k]) : k \in 1..Len(av)}

\* possible = {str(i) for i, _ in chunks[idx]}
possible(its, idx) ==
    LET ch == chunks(available(its))[idx + 1]
    IN {str(ch[k]) : k \in 1..Len(ch)}

\* The values a select event can carry: option values of the dropdown for
\* chunk idx, the first n of them being explored.
Offered(its, idx, n) ==
    IF idx >= Len(chunks(available(its))) THEN {}
    ELSE LET ch == chunks(available(its))[idx + 1]
         IN {str(ch[k]) : k \in 1..Min(n, Len(ch))}

\* The body of "async with lock" in on_item_select, then the reset of the
\* watchdog and the spawned refresh.
SelectBody(poss, newly) ==
    /\ selected_items' = (selected_items \ poss) \cup newly
    /\ timeout_task' = _reset_session_timeout(loot_sessions)
    /\ superseded' = replaced(loot_sessions)
    /\ refresh_pending' = create_task
    /\ UNCHANGED <<loot_sessions, rolls, dice, items, current_turn, round, direction,
                   just_reversed, last_action, members_to_remove, invoker_id,
                   locked, refresh_pc, cancelling, control_view, loot_message, loot_content, control_content, item_dropdown_message_id, control_edit>>

\* The handler does not look at who made the selection.
on_item_select(actor, idx, newly) ==
    IF ~loot_sessions THEN Rejected("select", actor, "expired")
    ELSE IF idx >= Len(chunks(available(items))) THEN Rejected("select", actor, "stale")
    ELSE IF ~locked /\ waiters = <<>>
    THEN /\ SelectBody(possible(items, idx), newly)
         /\ last_op' = Op("select", actor, "ok",
                          [kind |-> "select", idx |-> idx, newly |-> newly])
         /\ UNCHANGED waiters
    ELSE /\ Len(waiters) < MaxWaiters
         /\ waiters' = Append(waiters, [idx |-> idx,
                                        possible |-> possible(items, idx),
                                        newly |-> newly])
         /\ last_op' = Op("select", actor, "waiting",
                          [kind |-> "select", idx |-> idx, newly |-> newly])
         /\ UNCHANGED <<loot_sessions, session_vars, timeout_task, superseded, locked,
                        refresh_pending, refresh_pc, cancelling,
                        control_view, loot_message, loot_content, control_content, item_dropdown_message_id, control_edit>>

\* A suspended on_item_select gets the lock: waiters are served first come,
\* first served.
on_item_select_resume ==
    /\ ~locked
    /\ waiters # <<>>
    /\ SelectBody(waiters[1].possible, waiters[1].newly)
    /\ last_op' = Op("select_resume", 0, "ok",
                     [kind |-> "select", idx |-> waiters[1].idx,
                      newly |-> waiters[1].newly])
    /\ waiters' = Tail(waiters)

\* A snapshot that does not keep the reversal flag.
Snapshot_without_flag(indices) ==
    <<[turn |-> current_turn, round |-> round, direction |-> direction,
       just_reversed |-> FALSE, assigned_indices |-> indices]>>

\* The snapshot on_assign and on_skip store in session["last_action"].
Snapshot(indices) ==
    <<[turn |-> current_turn, round |-> round, direction |-> direction,
       just_reversed |-> just_reversed, assigned_indices |-> indices]>>

\* A loop whose range test leaves out the first item.
AssignItems_from_one(its, selected, picker) ==
    [i \in DOMAIN its |->
        IF \E sel \in selected : int(sel) = i /\ 0 < i /\ i < Cardinality(DOMAIN its)
        THEN picker ELSE its[i]]

\* The loop of on_assign over the selected values.
AssignItems(its, selected, picker) ==
    [i \in DOMAIN its |->
        IF \E sel \in selected : int(sel) = i /\ 0 <= i /\ i < Cardinality(DOMAIN its)
        THEN picker ELSE its[i]]

\* A commit that does not write the direction back.
Commit_keeping_direction(its, adv) ==
    /\ adv.round <= MaxRound
    /\ items' = its
    /\ selected_items' = {}
    /\ current_turn' = adv.current_turn
    /\ direction' = direction
    /\ round' = adv.round
    /\ just_reversed' = adv.just_reversed
    /\ timeout_task' = _reset_session_timeout(TRUE)
    /\ superseded' = replaced(TRUE)
    /\ refresh_pending' = create_task
    /\ UNCHANGED <<loot_sessions, rolls, dice, invoker_id, locked, waiters, refresh_pc,
                   cancelling, control_view, loot_message, loot_content, control_content, item_dropdown_message_id, control_edit>>

\* What on_assign and on_skip do after the snapshot: the buffer is emptied,
\* the turn advances, the watchdog is reset and a refresh is spawned.
Commit(its, adv) ==
    /\ adv.round <= MaxRound
    /\ items' = its
    /\ selected_items' = {}
    /\ current_turn' = adv.current_turn
    /\ direction' = adv.direction
    /\ round' = adv.round
    /\ just_reversed' = adv.just_reversed
    /\ timeout_task' = _reset_session_timeout(TRUE)
    /\ superseded' = replaced(TRUE)
    /\ refresh_pending' = create_task
    /\ UNCHANGED <<loot_sessions, rolls, dice, invoker_id, locked, waiters, refresh_pc,
                   cancelling, control_view, loot_message, loot_content, control_content, item_dropdown_message_id, control_edit>>

Before ==
    [kind |-> "before", items |-> items, current_turn |-> current_turn,
     round |-> round, direction |-> direction, just_reversed |-> just_reversed]

\* An assign without the test for an active turn: before the start the
\* index -1 is the last participant.
on_assign_unstarted(actor) ==
    IF ~loot_sessions THEN Rejected("assign", actor, "expired")
    ELSE IF current_turn >= NumRolls
    THEN Rejected("assign", actor, "not_active")
    ELSE LET picker == rolls[IF current_turn < 0 THEN NumRolls ELSE current_turn + 1]
             its == AssignItems(items, selected_items, picker)
         IN IF actor \notin {picker, invoker_id}
            THEN Rejected("assign", actor, "unauthorized")
            ELSE /\ last_action' = Snapshot({int(sel) : sel \in selected_items})
                 /\ Commit(its, Advanced(its))
                 /\ last_op' = Op("assign", actor, "ok", Before)
                 /\ UNCHANGED members_to_remove

on_assign(actor) ==
    IF ~loot_sessions THEN Rejected("assign", actor, "expired")
    ELSE IF current_turn < 0 \/ current_turn >= NumRolls
    THEN Rejected("assign", actor, "not_active")
    ELSE IF actor \notin {rolls[current_turn + 1], invoker_id}
    THEN Rejected("assign", actor, "unauthorized")
    ELSE LET its == AssignItems(items, selected_items, rolls[current_turn + 1])
         IN /\ last_action' = Snapshot({int(sel) : sel \in selected_items})
            /\ Commit(its, Advanced(its))
            /\ last_op' = Op("assign", actor, "ok", Before)
            /\ UNCHANGED members_to_remove

\* A skip that takes its snapshot in every state.
SkipSnapshot_always == Snapshot({})

\* The snapshot on_skip leaves: none when the session has not started.
SkipSnapshot ==
    IF current_turn # TURN_NOT_STARTED THEN Snapshot({}) ELSE <<>>

\* A skip that does not look at who pressed the button.
on_skip_by_anyone(actor) ==
    IF ~loot_sessions THEN Rejected("skip", actor, "expired")
    ELSE /\ last_action' = SkipSnapshot
         /\ members_to_remove' = IF current_turn = TURN_NOT_STARTED THEN {}
                                 ELSE members_to_remove
         /\ Commit(items, Advanced(items))
         /\ last_op' = Op("skip", actor, "ok", Before)

on_skip(actor) ==
    IF ~loot_sessions THEN Rejected("skip", actor, "expired")
    ELSE IF /\ 0 <= current_turn /\ current_turn < NumRolls
            /\ actor \notin {rolls[current_turn + 1], invoker_id}
    THEN Rejected("skip", actor, "unauthorized")
    ELSE /\ last_action' = SkipSnapshot
         /\ members_to_remove' = IF current_turn = TURN_NOT_STARTED THEN {}
                                 ELSE members_to_remove
         /\ Commit(items, Advanced(items))
         /\ last_op' = Op("skip", actor, "ok", Before)

\* The loop of on_undo over last_action["assigned_indices"].
UndoItems(its, last) ==
    [i \in DOMAIN its |-> IF i \in last.assigned_indices THEN NoMember ELSE its[i]]

\* An undo that keeps the snapshot it has applied.
on_undo_keeping(actor) ==
    IF ~loot_sessions THEN Rejected("undo", actor, "expired")
    ELSE IF actor # invoker_id THEN Rejected("undo", actor, "unauthorized")
    ELSE IF last_action = <<>> THEN Rejected("undo", actor, "nothing_to_undo")
    ELSE LET last == last_action[1] IN
        /\ items' = UndoItems(items, last)
        /\ current_turn' = last.turn
        /\ round' = last.round
        /\ direction' = last.direction
        /\ just_reversed' = last.just_reversed
        /\ last_action' = last_action
        /\ selected_items' = {}
        /\ timeout_task' = _reset_session_timeout(TRUE)
        /\ superseded' = replaced(TRUE)
        /\ refresh_pending' = create_task
        /\ last_op' = Op("undo", actor, "ok", NoArg)
        /\ UNCHANGED <<loot_sessions, rolls, dice, members_to_remove, invoker_id, locked,
                       waiters, refresh_pc, cancelling, control_view, loot_message, loot_content, control_content, item_dropdown_message_id, control_edit>>

on_undo(actor) ==
    IF ~loot_sessions THEN Rejected("undo", actor, "expired")
    ELSE IF actor # invoker_id THEN Rejected("undo", actor, "unauthorized")
    ELSE IF last_action = <<>> THEN Rejected("undo", actor, "nothing_to_undo")
    ELSE LET last == last_action[1] IN
        /\ items' = UndoItems(items, last)
        /\ current_turn' = last.turn
        /\ round' = last.round
        /\ direction' = last.direction
        /\ just_reversed' = last.just_reversed
        /\ last_action' = <<>>
        /\ selected_items' = {}
        /\ timeout_task' = _reset_session_timeout(TRUE)
        /\ superseded' = replaced(TRUE)
        /\ refresh_pending' = create_task
        /\ last_op' = Op("undo", actor, "ok", NoArg)
        /\ UNCHANGED <<loot_sessions, rolls, dice, members_to_remove, invoker_id, locked,
                       waiters, refresh_pc, cancelling, control_view, loot_message, loot_content, control_content, item_dropdown_message_id, control_edit>>

\* ------------------------------------------------------------ control panel
\* A check that lets every participant use the control panel.
interaction_check_of_participants(actor) ==
    loot_sessions /\ actor \in {rolls[k] : k \in 1..Len(rolls)}

\* ControlPanelView.interaction_check
interaction_check(actor) == loot_sessions /\ actor = invoker_id

\* A start that begins the count of the rounds again.
on_start_at_round_zero(actor) ==
    /\ control_view
    /\ IF ~loot_sessions THEN Rejected("start", actor, "expired")
       ELSE IF ~interaction_check(actor) THEN Rejected("start", actor, "unauthorized")
       ELSE LET adv == Advanced(items) IN
            /\ adv.round <= MaxRound
            /\ members_to_remove' = {}
            /\ selected_items' = {}
            /\ last_action' = <<>>
            /\ current_turn' = adv.current_turn
            /\ direction' = adv.direction
            /\ round' = 0
            /\ just_reversed' = adv.just_reversed
            /\ timeout_task' = _reset_session_timeout(TRUE)
            /\ superseded' = replaced(TRUE)
            /\ refresh_pending' = create_task
            /\ last_op' = Op("start", actor, "ok", NoArg)
            /\ UNCHANGED <<loot_sessions, rolls, dice, items, invoker_id, locked, waiters,
                           refresh_pc, cancelling, control_view, loot_message, loot_content, control_content, item_dropdown_message_id, control_edit>>

\* The handlers of the control panel run when one of its controls is used: the
\* control message has to show them (ControlPanelView._populate adds them
\* only while the turn is TURN_NOT_STARTED).
on_start(actor) ==
    /\ control_view
    /\ IF ~loot_sessions THEN Rejected("start", actor, "expired")
       ELSE IF ~interaction_check(actor) THEN Rejected("start", actor, "unauthorized")
       ELSE LET adv == Advanced(items) IN
            /\ adv.round <= MaxRound
            /\ members_to_remove' = {}
            /\ selected_items' = {}
            /\ last_action' = <<>>
            /\ current_turn' = adv.current_turn
            /\ direction' = adv.direction
            /\ round' = adv.round
            /\ just_reversed' = adv.just_reversed
            /\ timeout_task' = _reset_session_timeout(TRUE)
            /\ superseded' = replaced(TRUE)
            /\ refresh_pending' = create_task
            /\ last_op' = Op("start", actor, "ok", NoArg)
            /\ UNCHANGED <<loot_sessions, rolls, dice, items, invoker_id, locked, waiters,
                           refresh_pc, cancelling, control_view, loot_message, loot_content, control_content, item_dropdown_message_id, control_edit>>

\* ------------------------------------------------------------ deploy build
\* The handlers of RNGenie_deploy.py that advance the turn; the other
\* handlers of that file are those of RNGenie.py.
on_assign_deploy(actor) ==
    IF ~loot_sessions THEN Rejected("assign", actor, "expired")
    ELSE IF current_turn < 0 \/ current_turn >= NumRolls
    THEN Rejected("assign", actor, "not_active")
    ELSE IF actor \notin {rolls[current_turn + 1], invoker_id}
    THEN Rejected("assign", actor, "unauthorized")
    ELSE LET its == AssignItems(items, selected_items, rolls[current_turn + 1])
         IN /\ last_action' = Snapshot({int(sel) : sel \in selected_items})
            /\ Commit(its, Advanced_deploy(its))
            /\ last_op' = Op("assign", actor, "ok", Before)
            /\ UNCHANGED members_to_remove

on_skip_deploy(actor) ==
    IF ~loot_sessions THEN Rejected("skip", actor, "expired")
    ELSE IF /\ 0 <= current_turn /\ current_turn < NumRolls
            /\ actor \notin {rolls[current_turn + 1], invoker_id}
    THEN Rejected("skip", actor, "unauthorized")
    ELSE /\ last_action' = SkipSnapshot
         /\ members_to_remove' = IF current_turn = TURN_NOT_STARTED THEN {}
                                 ELSE members_to_remove
         /\ Commit(items, Advanced_deploy(items))
         /\ last_op' = Op("skip", actor, "ok", Before)

on_start_deploy(actor) ==
    /\ control_view
    /\ IF ~loot_sessions THEN Rejected("start", actor, "expired")
       ELSE IF ~interaction_check(actor) THEN Rejected("start", actor, "unauthorized")
       ELSE /\ members_to_remove' = {}
            /\ last_action' = <<>>
            /\ Commit(items, Advanced_deploy(items))
            /\ last_op' = Op("start", actor, "ok", NoArg)

\* A dropdown that offers every participant.
options_with_owner == {str(rolls[k]) : k \in 1..Len(rolls)}

\* The options ControlPanelView._populate gives the removal dropdown: every
\* participant but the owner.
options == {str(rolls[k]) : k \in {j \in 1..Len(rolls) : rolls[j] # invoker_id}}

\* on_remove_select stores the values it is given, without comparing them
\* with the options of its dropdown, and re-populates its view; the view
\* reaches the control message when the awaited edit is delivered.
on_remove_select(actor, vals) ==
    /\ control_view
    /\ control_edit = "none"
    /\ IF ~loot_sessions THEN Rejected("remove_select", actor, "expired")
       ELSE IF ~interaction_check(actor) THEN Rejected("remove_select", actor, "unauthorized")
       ELSE /\ members_to_remove' = vals
            /\ control_edit' = IF current_turn = TURN_NOT_STARTED THEN "controls"
                               ELSE "empty"
            /\ last_op' = Op("remove_select", actor, "ok", NoArg)
            /\ UNCHANGED <<loot_sessions, rolls, dice, items, current_turn, round, direction,
                           just_reversed, selected_items, last_action, invoker_id,
                           timeout_task, superseded, locked, waiters, refresh_pending, refresh_pc,
                           cancelling, control_view, loot_message, loot_content, control_content, item_dropdown_message_id>>

on_remove_select_edit ==
    /\ control_edit # "none"
    /\ control_view' = (control_edit = "controls")
    /\ UNCHANGED <<loot_message, loot_content, control_content, item_dropdown_message_id>>
    /\ control_edit' = "none"
    /\ last_op' = Op("remove_select_edit", 0, "ok", NoArg)
    /\ UNCHANGED <<loot_sessions, session_vars, timeout_task, superseded, locked, waiters,
                   refresh_pending, refresh_pc, cancelling>>

on_remove_confirm(actor) ==
    /\ control_view
    /\ IF ~loot_sessions THEN Rejected("remove_confirm", actor, "expired")
       ELSE IF ~interaction_check(actor) THEN Rejected("remove_confirm", actor, "unauthorized")
       ELSE LET to_remove == {int(v) : v \in members_to_remove}
                kept == SelectSeq(rolls, LAMBDA m : m \notin to_remove)
            IN IF to_remove # {} /\ kept = <<>>
               THEN \* the roster is empty: the handler deletes the messages
                    \* before it removes the session
                    /\ rolls' = kept
                    /\ dice' = [m \in {kept[k] : k \in DOMAIN kept} |-> dice[m]]
                    /\ members_to_remove' = {}
                    /\ cancelling' = TRUE
                    /\ last_op' = Op("remove_confirm", actor, "cancelling", NoArg)
                    /\ UNCHANGED <<loot_sessions, items, current_turn, round,
                                   direction, just_reversed, selected_items,
                                   last_action, invoker_id, timeout_task, superseded, locked,
                                   waiters, refresh_pending, refresh_pc,
                                   control_view, loot_message, loot_content, control_content, item_dropdown_message_id, control_edit>>
               ELSE /\ rolls' = IF to_remove # {} THEN kept ELSE rolls
                    /\ dice' = IF to_remove # {}
                               THEN [m \in {kept[k] : k \in DOMAIN kept} |-> dice[m]]
                               ELSE dice
                    /\ members_to_remove' = IF to_remove # {} THEN {}
                                            ELSE members_to_remove
                    /\ current_turn' =
                           IF /\ to_remove # {}
                              /\ current_turn # TURN_NOT_STARTED
                              /\ current_turn >= Len(kept)
                           THEN Max(0, Len(kept) - 1)
                           ELSE current_turn
                    /\ timeout_task' = _reset_session_timeout(TRUE)
                    /\ superseded' = replaced(TRUE)
                    /\ refresh_pending' = create_task
                    /\ last_op' = Op("remove_confirm", actor, "ok", NoArg)
                    /\ UNCHANGED <<loot_sessions, items, round, direction,
                                   just_reversed, selected_items, last_action,
                                   invoker_id, locked, waiters, refresh_pc,
                                   cancelling, control_view, loot_message, loot_content, control_content, item_dropdown_message_id, control_edit>>

\* msg.delete() on the message a stored id names; the id stays in the session.
delete(id) == IF id = "posted" THEN "deleted" ELSE id

\* A tail that leaves the session in the registry.
on_remove_confirm_cancel_keeping ==
    /\ cancelling
    /\ cancelling' = FALSE
    /\ control_view' = FALSE
    /\ loot_message' = FALSE
    /\ loot_content' = Deleted
    /\ control_content' = CancelledNotice
    /\ item_dropdown_message_id' = delete(item_dropdown_message_id)
    /\ timeout_task' = cancel(timeout_task)
    /\ superseded' = superseded
    /\ loot_sessions' = loot_sessions
    /\ last_op' = Op("remove_confirm_cancel", 0, "cancelled", NoArg)
    /\ UNCHANGED <<session_vars, locked, waiters, refresh_pending, refresh_pc,
                   control_edit>>

\* The tail of on_remove_confirm for an emptied roster: the control message
\* loses its view, the watchdog is cancelled, the session and its lock are
\* popped.
on_remove_confirm_cancel ==
    /\ cancelling
    /\ cancelling' = FALSE
    /\ control_view' = FALSE
    /\ loot_message' = FALSE
    /\ loot_content' = Deleted
    /\ control_content' = CancelledNotice
    /\ item_dropdown_message_id' = delete(item_dropdown_message_id)
    /\ timeout_task' = cancel(timeout_task)
    /\ superseded' = superseded
    /\ loot_sessions' = FALSE
    /\ last_op' = Op("remove_confirm_cancel", 0, "cancelled", NoArg)
    /\ UNCHANGED <<session_vars, locked, waiters, refresh_pending, refresh_pc,
                   control_edit>>

\* ------------------------------------------------------------ refresh
\* A refresh that empties the selection buffer when it starts.
_refresh_all_messages_begin_clearing ==
    /\ refresh_pending > 0
    /\ refresh_pending' = refresh_pending - 1
    /\ IF ~loot_sessions
       THEN /\ last_op' = Op("refresh", 0, "expired", NoArg)
            /\ UNCHANGED <<locked, refresh_pc>>
       ELSE /\ ~locked
            /\ refresh_pc = "idle"
            /\ locked' = TRUE
            /\ refresh_pc' = "locked"
            /\ last_op' = Op("refresh", 0, "locked", NoArg)
    /\ selected_items' = {}
    /\ UNCHANGED <<loot_sessions, rolls, dice, items, current_turn, round, direction,
                   just_reversed, last_action, members_to_remove, invoker_id,
                   timeout_task, superseded, waiters, cancelling, control_view,
                   loot_message, loot_content, control_content, item_dropdown_message_id, control_edit>>

\* A spawned _refresh_all_messages starts: it returns when the session is
\* gone, else it takes the lock.
_refresh_all_messages_begin ==
    /\ refresh_pending > 0
    /\ refresh_pending' = refresh_pending - 1
    /\ IF ~loot_sessions
       THEN /\ last_op' = Op("refresh", 0, "expired", NoArg)
            /\ UNCHANGED <<locked, refresh_pc>>
       ELSE /\ ~locked
            /\ refresh_pc = "idle"
            /\ locked' = TRUE
            /\ refresh_pc' = "locked"
            /\ last_op' = Op("refresh", 0, "locked", NoArg)
    /\ UNCHANGED <<loot_sessions, session_vars, timeout_task, superseded, waiters, cancelling,
                   control_view, loot_message, loot_content, control_content, item_dropdown_message_id, control_edit>>

\* The test of _refresh_all_messages for a finished distribution.
IsComplete == ~_are_items_left(items) /\ current_turn # TURN_NOT_STARTED

\* The refresh finds the distribution complete and starts to post the final
\* summary.
_refresh_all_messages_complete ==
    /\ refresh_pc = "locked"
    /\ IsComplete
    /\ refresh_pc' = "final"
    /\ last_op' = Op("refresh", 0, "final", NoArg)
    /\ UNCHANGED <<loot_sessions, session_vars, timeout_task, superseded, locked, waiters,
                   refresh_pending, cancelling, control_view, loot_message, loot_content, control_content, item_dropdown_message_id, control_edit>>

\* The message calls a refresh can make: the edits of the loot-list and the
\* control message, the deletion of the loot-list message, and the deletion,
\* the edit and the sending of the item message.
Deliveries == {"loot", "control", "loot_delete", "item_delete", "item_edit", "item_send"}

\* What a run of the refresh meets: the calls that raise (every one is
\* inside its own try/except), the delete_item flag it was spawned with, and
\* the messages whose built content differs from the content last delivered.
Delivered == [failed |-> {}, delete_item |-> TRUE]

Outcomes == [failed : {F \in SUBSET Deliveries : Cardinality(F) <= MaxFailed},
             delete_item : BOOLEAN]

\* The calls the completion branch makes: the final summary, the deletion of
\* the loot-list message and of the item message that is still stored.
cleanup_attempted(io) ==
    {"control", "loot_delete"}
        \cup (IF item_dropdown_message_id # "none" THEN {"item_delete"} ELSE {})

\* A cleanup that leaves the watchdog running.
_refresh_all_messages_cleanup_keeping_watchdog(io) ==
    /\ refresh_pc = "final"
    /\ refresh_pc' = "idle"
    /\ locked' = FALSE
    /\ control_view' = IF "control" \in io.failed THEN control_view ELSE FALSE
    /\ loot_message' = IF "loot_delete" \in io.failed THEN loot_message ELSE FALSE
    /\ loot_content' = IF "loot_delete" \in io.failed THEN loot_content ELSE Deleted
    /\ control_content' =
           IF "control" \in io.failed THEN control_content
           ELSE build_final_summary_message(rolls, dice, items, FALSE)
    /\ item_dropdown_message_id' =
           IF io.delete_item /\ item_dropdown_message_id # "none" THEN "none"
           ELSE IF "item_delete" \in io.failed THEN item_dropdown_message_id
           ELSE delete(item_dropdown_message_id)
    /\ timeout_task' = timeout_task
    /\ superseded' = superseded
    /\ loot_sessions' = FALSE
    /\ last_op' = Op("refresh", 0, "completed",
                     [kind |-> "io", io |-> io, attempted |-> cleanup_attempted(io)])
    /\ UNCHANGED <<session_vars, waiters, refresh_pending, cancelling, control_edit>>

\* The summary is posted without a view, the loot-list message and the item
\* message are deleted: cancel the watchdog, pop the session and its lock.
_refresh_all_messages_cleanup(io) ==
    /\ refresh_pc = "final"
    /\ refresh_pc' = "idle"
    /\ locked' = FALSE
    /\ control_view' = IF "control" \in io.failed THEN control_view ELSE FALSE
    /\ loot_message' = IF "loot_delete" \in io.failed THEN loot_message ELSE FALSE
    /\ loot_content' = IF "loot_delete" \in io.failed THEN loot_content ELSE Deleted
    /\ control_content' =
           IF "control" \in io.failed THEN control_content
           ELSE build_final_summary_message(rolls, dice, items, FALSE)
    /\ item_dropdown_message_id' =
           IF io.delete_item /\ item_dropdown_message_id # "none" THEN "none"
           ELSE IF "item_delete" \in io.failed THEN item_dropdown_message_id
           ELSE delete(item_dropdown_message_id)
    /\ timeout_task' = cancel(timeout_task)
    /\ superseded' = superseded
    /\ loot_sessions' = FALSE
    /\ last_op' = Op("refresh", 0, "completed",
                     [kind |-> "io", io |-> io, attempted |-> cleanup_attempted(io)])
    /\ UNCHANGED <<session_vars, waiters, refresh_pending, cancelling, control_edit>>

\* is_active of _refresh_all_messages: a participant is picking and an item
\* is left.
is_active == 0 <= current_turn /\ current_turn < NumRolls /\ _are_items_left(items)

\* The edit of the stored item message raises: the call fails, or the
\* message was deleted.
edit_raises(io) == "item_edit" \in io.failed \/ item_dropdown_message_id = "deleted"

\* The messages whose built content differs from the content they were
\* given last.
changed ==
    (IF build_loot_list_message(items) # loot_content THEN {"loot"} ELSE {})
        \cup (IF build_control_panel_message(rolls, dice, items,
                                             current_turn, direction, round)
                  # control_content
              THEN {"control"} ELSE {})

\* An edit that never reaches the message.
edited_nowhere(name, io, built, last) == last

\* The content a message has after the refresh: the built one when the edit
\* was made and did not raise.
edited(name, io, built, last) ==
    IF name \in changed \ io.failed THEN built ELSE last

\* The calls the branch of a session that is not complete makes.
render_attempted(io) ==
    LET existing == item_dropdown_message_id # "none"
    IN (IF io.delete_item /\ existing THEN {"item_delete"} ELSE {})
        \cup changed
        \cup (IF is_active
              THEN IF existing /\ ~io.delete_item
                   THEN {"item_edit"} \cup (IF edit_raises(io) THEN {"item_send"} ELSE {})
                   ELSE {"item_send"}
              ELSE IF existing /\ ~io.delete_item THEN {"item_delete"} ELSE {})

\* The order in which the branch makes its calls.
CallOrder == <<"item_delete", "loot", "control", "item_edit", "item_send">>

\* A refresh that gives up at the first call that raises.
_refresh_all_messages_render_aborting(io) ==
    /\ refresh_pc = "locked"
    /\ ~IsComplete
    /\ refresh_pc' = "idle"
    /\ locked' = FALSE
    /\ item_dropdown_message_id' =
           IF is_active /\ io.failed = {}
           THEN "posted"
           ELSE "none"
    /\ timeout_task' = _reset_session_timeout(loot_sessions)
    /\ superseded' = replaced(loot_sessions)
    /\ last_op' = Op("refresh", 0, "rendered",
                     [kind |-> "io", io |-> io,
                      attempted |->
                          LET raised == {k \in DOMAIN CallOrder :
                                           CallOrder[k] \in render_attempted(io) \cap io.failed}
                          IN {CallOrder[k] : k \in {j \in DOMAIN CallOrder :
                                                      \A r \in raised : j <= r}}
                                 \cap render_attempted(io)])
    /\ LET loot == build_loot_list_message(items)
           control == build_control_panel_message(rolls, dice, items, current_turn,
                                                  direction, round)
       IN IF loot_sessions
          THEN /\ loot_content' = edited("loot", io, loot, loot_content)
               /\ control_content' = edited("control", io, control, control_content)
               /\ control_view' = IF "control" \in changed \ io.failed
                                   THEN current_turn = TURN_NOT_STARTED
                                   ELSE control_view
          ELSE \* the session was popped while the refresh held the lock: the
               \* contents it recorded may no longer be those of the messages,
               \* so each edit is made or not; the view of a session that is
               \* gone is empty
               /\ loot_content' \in {loot_content} \cup (IF loot_message THEN {loot} ELSE {})
               /\ \/ control_content' = control_content /\ control_view' = control_view
                  \/ control_content' = control /\ control_view' = FALSE
    /\ UNCHANGED <<loot_sessions, session_vars, waiters, refresh_pending, cancelling,
                   control_edit, loot_message>>

\* The session is not complete: the changed messages are edited (the control
\* message with a newly populated ControlPanelView), the watchdog is reset,
\* the item message is deleted, edited or sent, and the lock is released.
_refresh_all_messages_render(io) ==
    /\ refresh_pc = "locked"
    /\ ~IsComplete
    /\ refresh_pc' = "idle"
    /\ locked' = FALSE
    /\ item_dropdown_message_id' =
           IF ~is_active THEN "none"
           ELSE IF "item_send" \in render_attempted(io)
           THEN IF "item_send" \in io.failed THEN "none" ELSE "posted"
           ELSE "posted"
    /\ timeout_task' = _reset_session_timeout(loot_sessions)
    /\ superseded' = replaced(loot_sessions)
    /\ last_op' = Op("refresh", 0, "rendered",
                     [kind |-> "io", io |-> io, attempted |-> render_attempted(io)])
    /\ LET loot == build_loot_list_message(items)
           control == build_control_panel_message(rolls, dice, items, current_turn,
                                                  direction, round)
       IN IF loot_sessions
          THEN /\ loot_content' = edited("loot", io, loot, loot_content)
               /\ control_content' = edited("control", io, control, control_content)
               /\ control_view' = IF "control" \in changed \ io.failed
                                   THEN current_turn = TURN_NOT_STARTED
                                   ELSE control_view
          ELSE \* the session was popped while the refresh held the lock: the
               \* contents it recorded may no longer be those of the messages,
               \* so each edit is made or not; the view of a session that is
               \* gone is empty
               /\ loot_content' \in {loot_content} \cup (IF loot_message THEN {loot} ELSE {})
               /\ \/ control_content' = control_content /\ control_view' = control_view
                  \/ control_content' = control /\ control_view' = FALSE
    /\ UNCHANGED <<loot_sessions, session_vars, waiters, refresh_pending, cancelling,
                   control_edit, loot_message>>

\* ------------------------------------------------------------ watchdog
\* The watchdog tasks that sleep and were not cancelled: the one the session
\* names, and any task it named before.
Sleeping ==
    (IF timeout_task = "pending" THEN {"current"} ELSE {})
        \cup (IF "pending" \in superseded THEN {"superseded"} ELSE {})

\* The sleep of the pending _schedule_session_timeout ends: the session and
\* its lock are popped.
_schedule_session_timeout ==
    \E task \in Sleeping :
        /\ IF task = "current"
           THEN /\ timeout_task' = "expiring"
                /\ superseded' = superseded
           ELSE /\ timeout_task' = timeout_task
                /\ superseded' = (superseded \ {"pending"}) \cup {"expiring"}
        /\ loot_sessions' = FALSE
        /\ last_op' = Op("timeout", 0, "timed_out", [kind |-> "task", task |-> task])
        /\ UNCHANGED <<session_vars, locked, waiters, refresh_pending, refresh_pc,
                       cancelling, control_view, loot_message, loot_content, control_content,
                       item_dropdown_message_id, control_edit>>

\* The messages are deleted and the control message gets the timed-out
\* summary without a view.
_schedule_session_timeout_summary ==
    /\ timeout_task = "expiring"
    /\ timeout_task' = "done"
    /\ superseded' = superseded
    /\ control_view' = FALSE
    /\ loot_message' = FALSE
    /\ loot_content' = Deleted
    /\ control_content' = build_final_summary_message(rolls, dice, items, TRUE)
    /\ item_dropdown_message_id' = delete(item_dropdown_message_id)
    /\ last_op' = Op("timeout", 0, "summary", NoArg)
    /\ UNCHANGED <<loot_sessions, session_vars, locked, waiters, refresh_pending,
                   refresh_pc, cancelling, control_edit>>

\* ------------------------------------------------------------ specifications
\* The handlers of the item picker and the start button, and the watchdog.
Next ==
    \/ \E a \in Users : on_start(a)
    \/ \E a \in Users, idx \in 0..MaxChunk :
            \E newly \in SUBSET Offered(items, idx, MaxPick) : on_item_select(a, idx, newly)
    \/ \E a \in Users : on_assign(a)
    \/ \E a \in Users : on_skip(a)
    \/ \E a \in Users : on_undo(a)
    \/ _schedule_session_timeout
    \/ _schedule_session_timeout_summary

Spec == Init /\ [][Next]_vars

\* A session whose owner rolled highest.
InitWatchdog ==
    /\ \E n \in 1..MaxMembers : InitSession(n, MaxItems)
    /\ invoker_id = 1

\* The event loop runs the watchdog when its sleep is over and lets it go on
\* when its message calls return.
SpecWatchdog ==
    /\ InitWatchdog
    /\ [][Next]_vars
    /\ WF_vars(_schedule_session_timeout)
    /\ WF_vars(_schedule_session_timeout_summary)

\* The same handlers with the refreshes they spawn, which hold the session
\* lock while they edit the messages, and the selects that wait for it.
NextRefresh ==
    \/ \E a \in Users : on_start(a)
    \/ \E a \in Users, idx \in 0..MaxChunk :
            \E newly \in SUBSET Offered(items, idx, MaxPick) : on_item_select(a, idx, newly)
    \/ on_item_select_resume
    \/ \E a \in Users : on_assign(a)
    \/ \E a \in Users : on_skip(a)
    \/ \E a \in Users : on_undo(a)
    \/ _refresh_all_messages_begin
    \/ _refresh_all_messages_complete
    \/ _refresh_all_messages_cleanup(Delivered)
    \/ _refresh_all_messages_render(Delivered)
    \/ _schedule_session_timeout
    \/ _schedule_session_timeout_summary

SpecRefresh == Init /\ [][NextRefresh]_vars

\* A small session of one participant that is picked to its end: the
\* handlers that assign and take back, and the refreshes. The event loop runs every task that is
\* ready: a spawned refresh starts, a task goes on when its message calls
\* return, a select gets the lock when it is free.
InitCompletion ==
    /\ InitSession(1, LiveItems)
    /\ invoker_id = 1

NextCompletion ==
    \/ on_start(invoker_id)
    \/ \E newly \in SUBSET Offered(items, 0, 1) : on_item_select(invoker_id, 0, newly)
    \/ on_item_select_resume
    \/ on_assign(invoker_id)
    \/ on_undo(invoker_id)
    \/ _refresh_all_messages_begin
    \/ _refresh_all_messages_complete
    \/ _refresh_all_messages_cleanup(Delivered)
    \/ _refresh_all_messages_render(Delivered)

SpecCompletion ==
    /\ InitCompletion
    /\ [][NextCompletion]_vars
    /\ WF_vars(_refresh_all_messages_begin)
    /\ WF_vars(_refresh_all_messages_complete)
    /\ WF_vars(_refresh_all_messages_cleanup(Delivered))
    /\ WF_vars(_refresh_all_messages_render(Delivered))
    /\ WF_vars(on_item_select_resume)

\* A session of one participant and one item, with refreshes whose message
\* calls can raise.
InitDelivery ==
    /\ InitSession(1, 1)
    /\ invoker_id = 1

NextDelivery ==
    \/ on_start(invoker_id)
    \/ \E newly \in SUBSET Offered(items, 0, 1) : on_item_select(invoker_id, 0, newly)
    \/ on_item_select_resume
    \/ on_assign(invoker_id)
    \/ _refresh_all_messages_begin
    \/ _refresh_all_messages_complete
    \/ \E io \in Outcomes : _refresh_all_messages_cleanup(io)
    \/ \E io \in Outcomes : _refresh_all_messages_render(io)

SpecDelivery == InitDelivery /\ [][NextDelivery]_vars

\* The control panel with its removal controls, the turns that follow, the
\* refreshes and the watchdog.
NextRemove ==
    \/ \E a \in Users : on_start(a)
    \/ \E a \in Users : \E vals \in SUBSET {str(rolls[k]) : k \in 1..Len(rolls)} :
            on_remove_select(a, vals)
    \/ on_remove_select_edit
    \/ \E a \in Users : on_remove_confirm(a)
    \/ on_remove_confirm_cancel
    \/ \E a \in Users : on_assign(a)
    \/ \E a \in Users : on_skip(a)
    \/ \E a \in Users : on_undo(a)
    \/ _refresh_all_messages_begin
    \/ _refresh_all_messages_render(Delivered)
    \/ _schedule_session_timeout
    \/ _schedule_session_timeout_summary

SpecRemove == Init /\ [][NextRemove]_vars

\* The control panel as long as it is shown, and the item picker of the
\* owner: removals, selections and assignments.
NextRoster ==
    \/ \E a \in Users : on_start(a)
    \/ \E a \in Users : \E vals \in SUBSET {str(rolls[k]) : k \in 1..Len(rolls)} :
            on_remove_select(a, vals)
    \/ on_remove_select_edit
    \/ \E a \in Users : on_remove_confirm(a)
    \/ on_remove_confirm_cancel
    \/ \E idx \in 0..MaxChunk :
            \E newly \in SUBSET Offered(items, idx, MaxPick) :
                on_item_select(invoker_id, idx, newly)
    \/ \E a \in Users : on_assign(a)

SpecRoster == Init /\ [][NextRoster]_vars

\* A session of the deploy build: the owner is the first of the
\* participants, and the handlers of the item picker are invoked by the
\* owner and by the participants.
InitDeploy ==
    /\ \E n \in 1..DeployMembers : InitSession(n, MaxItems)
    /\ invoker_id = 1

NextDeploy ==
    \/ on_start_deploy(invoker_id)
    \/ \E newly \in SUBSET Offered(items, 0, 1) : on_item_select(invoker_id, 0, newly)
    \/ \E a \in 1..DeployMembers : on_assign_deploy(a)
    \/ \E a \in 1..DeployMembers : on_skip_deploy(a)
    \/ on_undo(invoker_id)

SpecDeploy == InitDeploy /\ [][NextDeploy]_vars

\* The handlers that ask who the owner is, used by every user, and the skip
\* that moves the turn from one participant to the next.
NextOwner ==
    \/ \E a \in Users : on_start(a)
    \/ \E a \in Users : \E vals \in SUBSET {str(rolls[k]) : k \in 1..Len(rolls)} :
            on_remove_select(a, vals)
    \/ on_remove_select_edit
    \/ \E a \in Users : on_remove_confirm(a)
    \/ on_remove_confirm_cancel
    \/ \E a \in Users : on_skip(a)
    \/ \E a \in Users : on_undo(a)

SpecOwner == Init /\ [][NextOwner]_vars

\* The control panel used as it is shown: the removal dropdown sends values
\* from its options only. The turns of the started session follow.
NextOffered ==
    \/ \E a \in Users : on_start(a)
    \/ \E a \in Users : \E vals \in SUBSET options : on_remove_select(a, vals)
    \/ on_remove_select_edit
    \/ \E a \in Users : on_remove_confirm(a)
    \/ \E a \in Users : on_skip(a)
    \/ \E a \in Users : on_undo(a)

SpecOffered == Init /\ [][NextOffered]_vars

\* A draft: the owner starts the session once, and the picker of each turn,
\* or the owner in their place, selects, assigns and skips.
InitSnake ==
    /\ \E n \in 1..SnakeMembers : InitSession(n, MaxItems)
    /\ invoker_id = 1

NextSnake ==
    \/ current_turn = TURN_NOT_STARTED /\ on_start(invoker_id)
    \/ \E newly \in SUBSET Offered(items, 0, 1) : on_item_select(invoker_id, 0, newly)
    \/ \E a \in 1..SnakeMembers : on_assign(a)
    \/ \E a \in 1..SnakeMembers : current_turn # TURN_NOT_STARTED /\ on_skip(a)

SpecSnake == InitSnake /\ [][NextSnake]_vars

\* A session of one participant, the owner, who starts the draft and takes
\* the items one after the other. The event loop runs every task that is
\* ready: a spawned refresh starts, it goes on when its message calls return,
\* and a select gets the lock when it is free.
InitSync ==
    /\ InitSession(1, MaxItems)
    /\ invoker_id = 1

NextSync ==
    \/ on_start(invoker_id)
    \/ \E newly \in SUBSET Offered(items, 0, 1) : on_item_select(invoker_id, 0, newly)
    \/ on_item_select_resume
    \/ on_assign(invoker_id)
    \/ _refresh_all_messages_begin
    \/ _refresh_all_messages_complete
    \/ _refresh_all_messages_cleanup(Delivered)
    \/ _refresh_all_messages_render(Delivered)

SpecSync ==
    /\ InitSync
    /\ [][NextSync]_vars
    /\ WF_vars(_refresh_all_messages_begin)
    /\ WF_vars(_refresh_all_messages_complete)
    /\ WF_vars(_refresh_all_messages_cleanup(Delivered))
    /\ WF_vars(_refresh_all_messages_render(Delivered))
    /\ WF_vars(on_item_select_resume)

\* The control panel, the assign button, the refreshes and the watchdog: the
\* ways a session leaves the registry before its draft is over, and what is
\* invoked on it afterwards.
NextCancel ==
    \/ \E a \in Users : on_start(a)
    \/ \E a \in Users : \E vals \in SUBSET {str(rolls[k]) : k \in 1..Len(rolls)} :
            on_remove_select(a, vals)
    \/ on_remove_select_edit
    \/ \E a \in Users : on_remove_confirm(a)
    \/ on_remove_confirm_cancel
    \/ \E a \in Users : on_assign(a)
    \/ _refresh_all_messages_begin
    \/ _refresh_all_messages_render(Delivered)
    \/ _schedule_session_timeout
    \/ _schedule_session_timeout_summary

\* A session of the most members, whose owner rolled highest.
InitCancel ==
    /\ InitSession(MaxMembers, MaxItems)
    /\ invoker_id = 1

SpecCancel == InitCancel /\ [][NextCancel]_vars

\* Two dropdowns: a session of one participant, who uses it alone, with more
\* items than one dropdown holds.
InitPaged ==
    /\ InitSession(1, PagedItems)
    /\ invoker_id = 1

NextPaged ==
    \/ on_start(invoker_id)
    \/ \E idx \in 0..MaxChunk :
            \E newly \in SUBSET Offered(items, idx, PagedPick) :
                on_item_select(invoker_id, idx, newly)
    \/ on_assign(invoker_id)
    \/ on_undo(invoker_id)

SpecPaged == InitPaged /\ [][NextPaged]_vars

\* The creation of a session with its ranking, followed by the draft of the
\* owner: the dice are the inputs.
NextRanking ==
    \/ \E n \in 1..RankMembers, actor \in 1..RankMembers :
          \E roll \in [1..n -> 1..MaxRoll], tb \in [1..n -> 1..MaxRoll] :
              /\ actor <= n
              /\ callback(n, 1, roll, tb, actor)
    \/ on_start(invoker_id)
    \/ on_skip(invoker_id)

SpecRanking == InitRanking /\ [][NextRanking]_vars

\* ------------------------------------------------------------ properties
\* The steps in which a handler called _advance_turn_snake.
AdvanceStep == last_op'.op \in {"start", "skip", "assign"} /\ last_op'.response = "ok"

Picking == 0 <= current_turn /\ current_turn < NumRolls

Picker == rolls[current_turn + 1]

\* The indices the buffer holds.
Buffer == {i \in DOMAIN items : str(i) \in selected_items}

\* The turn fields after the step are those of an advance from the fields
\* before it, over the items after it.
TurnAdvanced ==
    LET adv == _advance_turn_snake(items', NumRolls, current_turn, direction, round)
    IN /\ current_turn' = adv.current_turn
       /\ round' = adv.round
       /\ direction' = adv.direction
       /\ just_reversed' = adv.just_reversed

\* C2: an assign in Picking with a non-empty buffer B, by the owner or by the
\* current picker, gives every item of B to the participant at current_turn
\* (also when the owner acts for them), leaves the other items alone,
\* empties the buffer, stores the fields before the call with
\* assigned_indices = B in last_action, and advances the turn.
C2_AssignGivesBufferToPicker ==
    [][(/\ last_op'.op = "assign"
        /\ Picking
        /\ selected_items # {})
       => (/\ last_op'.actor \in {invoker_id, Picker}
           /\ \A i \in DOMAIN items :
                 items'[i] = IF i \in Buffer THEN Picker ELSE items[i]
           /\ selected_items' = {}
           /\ last_action' = <<[turn |-> current_turn, round |-> round,
                                direction |-> direction,
                                just_reversed |-> just_reversed,
                                assigned_indices |-> Buffer]>>
           /\ TurnAdvanced)]_vars

\* The owner has assigned the first item for another participant.
C2_Witness ==
    /\ last_op.op = "assign"
    /\ last_op.actor = invoker_id
    /\ last_action # <<>>
    /\ last_action[1].assigned_indices = {0}
    /\ last_action[1].turn = 0
    /\ rolls[1] # invoker_id
    /\ items[0] = rolls[1]

\* C5: a skip in Picking, by the owner or by the current picker, stores the
\* fields before the call with no assigned indices in last_action, empties
\* the buffer, changes no ownership and advances the turn.
C5_SkipSnapshotsAndAdvances ==
    [][(last_op'.op = "skip" /\ Picking)
       => (/\ last_op'.actor \in {invoker_id, Picker}
           /\ last_action' = <<[turn |-> current_turn, round |-> round,
                                direction |-> direction,
                                just_reversed |-> just_reversed,
                                assigned_indices |-> {}]>>
           /\ selected_items' = {}
           /\ items' = items
           /\ TurnAdvanced)]_vars

\* A skip right after a reversal, with a selection in the buffer before it.
C5_Witness ==
    /\ last_op.op = "skip"
    /\ last_op.arg.current_turn = 1
    /\ last_action # <<>>
    /\ last_action[1].just_reversed
    /\ last_action[1].assigned_indices = {}
    /\ selected_items = {}
    /\ current_turn = 0

\* C6: a skip on a session that has not started (current_turn = -1, the
\* roster not emptied) does what start does: current_turn becomes 0 and
\* there is no last_action, and no undo succeeds right after it.
C6_SkipStarts ==
    [][/\ (last_op'.op = "skip" /\ current_turn = TURN_NOT_STARTED /\ NumRolls > 0)
          => (current_turn' = 0 /\ last_action' = <<>>)
       /\ (/\ last_op.op = "skip"
           /\ last_op.arg.current_turn = TURN_NOT_STARTED
           /\ NumRolls > 0)
          => (last_action = <<>> /\ last_op'.op # "undo")]_vars

\* A skip has started the session: the first participant has the turn and
\* there is nothing to undo.
C6_Witness ==
    /\ last_op.op = "skip"
    /\ last_op.arg.current_turn = TURN_NOT_STARTED
    /\ current_turn = 0
    /\ last_action = <<>>

\* C3: an assign in Picking followed at once by an undo puts every item's
\* owner, the turn, the round, the direction and just_reversed back to what
\* they were before the assign, with no last_action and an empty buffer.
C3_UndoRestoresAssign ==
    [][(last_op.op = "assign" /\ last_op'.op = "undo")
       => (/\ items' = last_op.arg.items
           /\ current_turn' = last_op.arg.current_turn
           /\ round' = last_op.arg.round
           /\ direction' = last_op.arg.direction
           /\ just_reversed' = last_op.arg.just_reversed
           /\ last_action' = <<>>
           /\ selected_items' = {})]_vars

\* Page P's slice of the unassigned items, in index order, ChunkSize a page.
Rank(its, i) == Cardinality({j \in DOMAIN its : j < i /\ its[j] = NoMember})

PageSlice(its, P) ==
    {str(i) : i \in {j \in DOMAIN its :
                        its[j] = NoMember /\ Rank(its, j) \div ChunkSize = P}}

SelectCommitted == last_op'.op \in {"select", "select_resume"} /\ last_op'.response = "ok"

\* C4: a select for page P with values V makes the buffer (buffer minus page
\* P's slice of the currently unassigned items) united with V, so what was
\* selected on other pages stays; the same select once more leaves the
\* buffer as it is.
C4_SelectReplacesPage ==
    [][SelectCommitted
       => (/\ selected_items' =
                 (selected_items \ PageSlice(items, last_op'.arg.idx))
                     \cup last_op'.arg.newly
           /\ (last_op.op = "select" /\ last_op.response = "ok"
                    /\ last_op.arg = last_op'.arg)
                 => selected_items' = selected_items)]_vars

\* Thirty unassigned items: {0} selected on page 0, then {25} on page 1.
C4_Witness ==
    /\ \A i \in DOMAIN items : items[i] = NoMember
    /\ Cardinality(DOMAIN items) = PagedItems
    /\ last_op.op = "select"
    /\ last_op.arg.idx = 1
    /\ last_op.arg.newly = {str(25)}
    /\ selected_items = {str(0), str(25)}

\* C7: a start on a session that is already picking leaves current_turn,
\* round, direction, just_reversed and last_action as they are.
C7_StartOnlyFromNotStarted ==
    [][(last_op'.op = "start" /\ current_turn # TURN_NOT_STARTED)
       => UNCHANGED <<current_turn, round, direction, just_reversed, last_action>>]_vars

\* C8: once the session has started no operation changes the roster.
C8_RosterFixedOnceStarted ==
    [][current_turn # TURN_NOT_STARTED => rolls' = rolls]_vars

\* The session was cancelled by the removal of every participant, and the
\* handler that cancelled it has returned.
IsCancelled == ~loot_sessions /\ rolls = <<>> /\ ~cancelling

\* C9: a removal before the start that names every participant cancels the
\* session: the roster is emptied, the watchdog is cancelled and the session
\* leaves the registry; from then on every operation is answered as an
\* expired session and changes neither the session nor the registry nor
\* the watchdog.
C9_RemoveAllCancels ==
    [][/\ (/\ last_op'.op = "remove_confirm"
           /\ current_turn = TURN_NOT_STARTED
           /\ \A k \in 1..NumRolls : str(rolls[k]) \in members_to_remove)
          => (rolls' = <<>> /\ cancelling')
       /\ last_op'.op = "remove_confirm_cancel"
          => (~loot_sessions' /\ timeout_task' \notin {"pending", "expiring"})
       /\ IsCancelled
          => (/\ UNCHANGED <<session_vars, loot_sessions, timeout_task>>
              /\ last_op'.op \notin {"start", "skip", "assign", "undo", "select",
                                      "remove_select", "remove_confirm"})]_vars

\* A cancelled session has answered a later operation.
C9_Witness ==
    /\ IsCancelled
    /\ current_turn = TURN_NOT_STARTED
    /\ timeout_task = "cancelled"
    /\ last_op.op = "rejected"
    /\ last_op.response = "expired"
    /\ last_op.arg.op = "start"

\* C10: an assign in Picking with an empty buffer changes neither ownership
\* nor turn, round, direction, just_reversed or last_action.
C10_EmptyAssignIsNoOp ==
    [][(last_op'.op = "assign" /\ Picking /\ selected_items = {})
       => UNCHANGED <<items, current_turn, round, direction, just_reversed,
                      last_action>>]_vars

\* C11 as stated: after any assign or skip, the undo that follows directly
\* is not answered with nothing to undo.
C11_UndoAfterAnySkip ==
    [][last_op.op \in {"assign", "skip"}
       => last_op'.response # "nothing_to_undo"]_vars

\* C11: an undo is answered with nothing to undo exactly when there is no
\* last_action, and then nothing of the session changes; after an assign, or
\* a skip of a started session, there is a snapshot, so the undo that
\* follows directly is not refused for want of one, and no undo succeeds
\* directly after an undo.
C11_SingleUndo ==
    [][/\ last_op'.response = "nothing_to_undo"
          => (/\ last_action = <<>>
              /\ UNCHANGED <<session_vars, loot_sessions, timeout_task>>)
       /\ last_op'.op = "undo" => last_action # <<>>
       /\ (/\ last_op.op \in {"assign", "skip"}
           /\ last_op.arg.current_turn # TURN_NOT_STARTED)
          => (last_action # <<>> /\ last_op'.response # "nothing_to_undo")
       /\ last_op.op = "undo"
          => (last_action = <<>> /\ last_op'.op # "undo")]_vars

\* An undo has taken back the assignment of the first item.
C11_Witness ==
    /\ last_op.op = "undo"
    /\ last_action = <<>>
    /\ current_turn = 0
    /\ round = 0
    /\ \A i \in DOMAIN items : items[i] = NoMember

\* C12: while a task holds the session lock (a refresh that edits the
\* messages), no step changes current_turn, round, direction, the owner of an
\* item, the selection or last_action.
C12_LockExcludesMutation ==
    [][locked => UNCHANGED <<current_turn, round, direction, items,
                             selected_items, last_action>>]_vars

\* C13: a select that waited for the lock writes its values only if the
\* slice it computed when it arrived is still the slice of its page: it does
\* not write them over a commit that came in between as if it had computed
\* the slice after that commit.
C13_SelectNotAfterCommit ==
    [][last_op'.op = "select_resume"
       => \/ waiters[1].possible = PageSlice(items, waiters[1].idx)
          \/ selected_items' = selected_items]_vars

\* The steps in which a handler is invoked, whatever it answers.
Operation ==
    last_op'.op \in {"start", "select", "assign", "skip", "undo", "rejected",
                     "remove_select", "remove_confirm"}

\* The session was timed out and its control message has the summary
\* without controls.
IsTimedOut == ~loot_sessions /\ timeout_task = "done" /\ ~control_view

IsCompleted == ~loot_sessions /\ timeout_task = "cancelled" /\ ~control_view

C17_OnlyPickerOrOwnerActs ==
    [][(loot_sessions /\ Picking)
       => (/\ last_op'.op \in {"assign", "skip"}
              => last_op'.actor \in {invoker_id, Picker}
           /\ (/\ last_op'.op = "rejected"
               /\ last_op'.response = "unauthorized"
               /\ last_op'.arg.op \in {"assign", "skip"})
              => (/\ last_op'.actor \notin {invoker_id, Picker}
                  /\ UNCHANGED <<session_vars, loot_sessions, timeout_task>>))]_vars

\* A participant whose turn it is not, and who is not the owner, was refused
\* a skip while the draft was running.
C17_Witness ==
    /\ loot_sessions
    /\ Picking
    /\ last_op.op = "rejected"
    /\ last_op.response = "unauthorized"
    /\ last_op.arg.op = "skip"
    /\ last_op.actor \notin {invoker_id, Picker}
    /\ last_op.actor \in {rolls[i] : i \in DOMAIN rolls}

\* C18: while a participant is picking, a select changes the buffer only for
\* the owner or the participant at current_turn; for any other actor the
\* buffer is left as it was.
C18_SelectOnlyByPickerOrOwner ==
    [][(loot_sessions /\ Picking /\ last_op'.op = "select"
          /\ last_op'.actor \notin {invoker_id, Picker})
       => selected_items' = selected_items]_vars

\* The key the ranking of a session was sorted by, per rank.
RankKey(p) == _sort_key(dice[rolls[p]])

\* C19: the ranking of a session is descending by (roll, tie value) and
\* strictly so: a member with a roll of its own carries no tie value, and two
\* members with the same roll carry different tie values.
C19_RankingIsStrictOrder ==
    loot_sessions
    => /\ \A p, q \in DOMAIN rolls : p < q => TupleLess(RankKey(q), RankKey(p))
       /\ \A m \in DOMAIN dice :
              (\A k \in DOMAIN dice : k # m => dice[k].roll # dice[m].roll)
              => dice[m].tiebreak = <<>>
       /\ \A m, k \in DOMAIN dice :
              (k # m /\ dice[k].roll = dice[m].roll)
              => (/\ dice[m].tiebreak # <<>>
                  /\ dice[k].tiebreak # <<>>
                  /\ dice[m].tiebreak # dice[k].tiebreak)

\* The step is a refresh that edits or sends a message of the session: the
\* item message of a running draft, or the final summary.
RefreshPosts ==
    /\ last_op'.op = "refresh"
    /\ \/ last_op'.response = "completed"
       \/ (last_op'.response = "rendered" /\ Picking /\ _are_items_left(items))

\* C20: once the handle has left the registry, no refresh edits or sends a
\* message of the session, one that already holds the lock included.
C20_NoMessageAfterRemoval == [][~loot_sessions => ~RefreshPosts]_vars

\* C21: a refresh whose message calls raise changes nothing of the turn, the
\* round, the direction, the ownership, the buffer or the undo record, and
\* it still makes the calls for the other messages: both edits of changed
\* content and, for a running draft, an item message that is edited or sent;
\* on completion the summary and both deletions.
C21_FailedDeliveryIsSwallowed ==
    [][(last_op'.op = "refresh" /\ last_op'.response \in {"rendered", "completed"})
       => LET io == last_op'.arg.io
              attempted == last_op'.arg.attempted
          IN /\ UNCHANGED <<current_turn, round, direction, items, selected_items,
                            last_action>>
             /\ last_op'.response = "rendered"
                => (/\ changed \subseteq attempted
                    /\ is_active
                       => \/ "item_send" \in attempted
                          \/ ("item_edit" \in attempted /\ "item_edit" \notin io.failed))
             /\ last_op'.response = "completed"
                => (/\ {"control", "loot_delete"} \subseteq attempted
                    /\ item_dropdown_message_id # "none" => "item_delete" \in attempted)]_vars

\* The edit of the control message raised in a refresh of a running draft;
\* the item message was sent all the same.
C21_Witness ==
    /\ last_op.op = "refresh"
    /\ last_op.response = "rendered"
    /\ "control" \in last_op.arg.io.failed
    /\ {"control", "item_send"} \subseteq last_op.arg.attempted
    /\ item_dropdown_message_id = "posted"
    /\ current_turn = 0

\* Every task of the session has finished: no refresh is spawned, running
\* or waiting, no select waits for the lock, no handler is in its tail, and
\* the watchdog is neither sleeping nor at work.
AllTasksFinished ==
    /\ refresh_pending = 0
    /\ refresh_pc = "idle"
    /\ waiters = <<>>
    /\ ~cancelling
    /\ control_edit = "none"
    /\ timeout_task \notin {"pending", "expiring"}

\* C22: once the session has left the registry and all of its tasks have
\* finished, the control message carries no controls, the loot-list message
\* is deleted and no item message of the session is left in the channel.
C22_EndedSessionLeavesNoPicker ==
    (~loot_sessions /\ AllTasksFinished)
    => (~control_view /\ ~loot_message /\ item_dropdown_message_id # "posted")

\* The session is Complete: the turn stands at the number of participants
\* and every item has an owner.
Complete == loot_sessions /\ current_turn = NumRolls /\ ~_are_items_left(items)

\* C23: in a session that is Complete, or that was cancelled, no step changes
\* current_turn or the owner of an item.
C23_NoWayOutOfComplete ==
    [][(Complete \/ IsCancelled) => UNCHANGED <<current_turn, items>>]_vars

\* The step is an operation that took effect: a start, an assign, a skip, an
\* undo, a select that wrote the buffer, or a confirmed removal that left
\* participants.
Successful ==
    \/ last_op'.op \in {"start", "assign", "skip", "undo"}
    \/ (last_op'.op \in {"select", "select_resume", "remove_confirm"}
           /\ last_op'.response = "ok")

C25_BufferHoldsUnassignedItems ==
    loot_sessions
    => \A sel \in selected_items :
          int(sel) \in DOMAIN items /\ items[int(sel)] = NoMember

\* C26: in a session that is not being cancelled, current_turn lies between
\* -1 and the number of participants, and when the session is started and
\* has an item without owner it is the index of a participant.
C26_TurnInRange ==
    (loot_sessions /\ ~cancelling)
    => (/\ TURN_NOT_STARTED <= current_turn
        /\ current_turn <= NumRolls
        /\ (current_turn # TURN_NOT_STARTED /\ _are_items_left(items))
           => (0 <= current_turn /\ current_turn <= NumRolls - 1))

\* C27: in a session that is not being cancelled, the owner of every item
\* that has one is a participant of the session's roster.
C27_OwnersAreParticipants ==
    (loot_sessions /\ ~cancelling)
    => \A i \in DOMAIN items :
          items[i] = NoMember \/ items[i] \in {rolls[k] : k \in DOMAIN rolls}

\* C28: whenever the turn is advanced in a session in which no unassigned
\* item remains, current_turn becomes the number of participants and round
\* and direction keep their values, whatever the turn and the direction were.
C28_NoItemLeftCompletes ==
    [][(AdvanceStep /\ ~_are_items_left(items'))
       => (/\ current_turn' = NumRolls
           /\ round' = round
           /\ direction' = direction)]_vars

\* The last items are assigned on the way back of the snake: the session is
\* complete in the second round, with the direction still reversed.
C28_Witness ==
    /\ last_op.op = "assign"
    /\ last_op.response = "ok"
    /\ last_op.arg.current_turn < NumRolls
    /\ ~_are_items_left(items)
    /\ current_turn = NumRolls
    /\ direction = -1
    /\ round = 1

\* The steps in which a watchdog's sleep ended and it popped the registry.
TimedOutStep ==
    /\ last_op'.response = "timed_out"
    /\ (timeout_task' # timeout_task \/ superseded' # superseded)

\* C29: a watchdog that a later reset superseded, or that was cancelled when
\* its session was destroyed, never sleeps on, so it never removes a session:
\* every time-out is the work of the watchdog the session named last, on a
\* session that was registered, although the handlers reset the watchdog
\* without holding the session's lock.
C29_OnlyLatestWatchdogFires ==
    /\ [](Sleeping \subseteq (IF loot_sessions THEN {"current"} ELSE {}))
    /\ [][TimedOutStep
           => (/\ loot_sessions
               /\ last_op'.arg.task = "current"
               /\ timeout_task = "pending")]_vars

\* A session whose watchdog was reset, by a handler while a refresh held the
\* lock, is timed out by the watchdog scheduled last.
C29_Witness ==
    /\ ~loot_sessions
    /\ last_op.response = "timed_out"
    /\ last_op.arg.task = "current"
    /\ "cancelled" \in superseded
    /\ locked

\* The steps of a run of _refresh_all_messages.
RefreshStep ==
    /\ last_op'.op = "refresh"
    /\ (refresh_pc' # refresh_pc \/ refresh_pending' # refresh_pending)

\* C30: no step of a refresh, with the builders and the views it makes,
\* changes the participants, the owners of the items, current_turn, round,
\* direction, just_reversed, the selection buffer or last_action.
C30_RenderingMutatesNothing ==
    [][RefreshStep
       => UNCHANGED <<rolls, items, current_turn, round, direction,
                      just_reversed, selected_items, last_action>>]_vars

\* A refresh rendered a started session whose buffer holds a selection.
C30_Witness ==
    /\ last_op.op = "refresh"
    /\ last_op.response = "rendered"
    /\ loot_sessions
    /\ current_turn = 0
    /\ selected_items # {}

\* C31: in a started session of one participant in which an item stays
\* unassigned, every advance leaves current_turn at 0, adds one to round,
\* negates direction and sets just_reversed.
C31_SingleParticipantReverses ==
    [][(/\ AdvanceStep
        /\ NumRolls = 1
        /\ current_turn # TURN_NOT_STARTED
        /\ _are_items_left(items'))
       => (/\ current_turn' = 0
           /\ round' = round + 1
           /\ direction' = -direction
           /\ just_reversed')]_vars

\* C32: in the deploy build, an advance of a started session of two or more
\* participants that has items left and whose next position is outside
\* 0..N-1 negates direction, adds one to round, sets just_reversed and moves
\* current_turn one step in the new direction, so that no advance of such a
\* session leaves the turn with the same participant.
C32_DeployBoundarySteps ==
    [][(/\ AdvanceStep
        /\ Picking
        /\ NumRolls >= 2
        /\ _are_items_left(items'))
       => (/\ current_turn' # current_turn
           /\ ~(0 <= current_turn + direction /\ current_turn + direction < NumRolls)
              => (/\ direction' = -direction
                  /\ round' = round + 1
                  /\ just_reversed'
                  /\ current_turn' = current_turn - direction))]_vars

\* Three participants, start and five skips: the turn went 0, 1, 2, 1, 0 and
\* the skip at 0 turns the snake round again and gives the turn to 1.
C32_Witness ==
    /\ NumRolls = 3
    /\ last_op.op = "skip"
    /\ last_op.arg.current_turn = 0
    /\ last_op.arg.direction = -1
    /\ last_op.arg.round = 1
    /\ current_turn = 1
    /\ direction = 1
    /\ round = 2
    /\ just_reversed

\* The operations of the owner, as last_op names them.
OwnerOps == {"undo", "start", "remove_select", "remove_confirm"}

\* C33: an undo, a start or a removal takes effect only for the owner of the
\* session; for any other actor, the participant at current_turn included,
\* it is answered as not permitted and nothing of the session changes.
C33_OwnerOnly ==
    [][loot_sessions
       => (/\ last_op'.op \in OwnerOps => last_op'.actor = invoker_id
           /\ (/\ last_op'.op = "rejected"
               /\ last_op'.response = "unauthorized"
               /\ last_op'.arg.op \in OwnerOps)
              => (/\ last_op'.actor # invoker_id
                  /\ UNCHANGED <<session_vars, loot_sessions, timeout_task>>))]_vars

\* The participant whose turn it is, who is not the owner, was refused an
\* undo although there was an action to undo.
C33_Witness ==
    /\ loot_sessions
    /\ Picking
    /\ last_action # <<>>
    /\ last_op.op = "rejected"
    /\ last_op.response = "unauthorized"
    /\ last_op.arg.op = "undo"
    /\ last_op.actor = Picker
    /\ last_op.actor # invoker_id

\* The steps of the operations that change a session.
MutatingStep ==
    last_op'.op \in {"start", "select", "select_resume", "assign", "skip", "undo",
                     "remove_select", "remove_confirm"}

\* The messages show the session as it is: the loot-list and the control
\* message have the content built from the session, and there is an item
\* message exactly when a participant is picking.
Synced ==
    /\ loot_content = build_loot_list_message(items)
    /\ control_content = build_control_panel_message(rolls, dice, items, current_turn,
                                                     direction, round)
    /\ (item_dropdown_message_id = "posted") <=> Picking

\* C34: when the operations on a session come to an end and the session
\* stays in the registry, the messages eventually show it as it is, and go
\* on to (message calls succeed, every spawned refresh runs).
C34_MessagesCatchUp ==
    []<><<MutatingStep>>_vars \/ <>[](loot_sessions => Synced)

\* The refresh after an assign that left an item has edited both messages
\* and posted the item message of the next turn.
C34_Witness ==
    /\ loot_sessions
    /\ Synced
    /\ Picking
    /\ \E i \in DOMAIN items : items[i] # NoMember
    /\ last_op.op = "refresh"
    /\ last_op.response = "rendered"
    /\ {"loot", "control", "item_send"} \subseteq last_op.arg.attempted
    /\ refresh_pending = 0

\* C35: the owner of an item changes only from none to the current picker,
\* in an assign, or from a participant to none, in an undo: no step gives
\* an item that has an owner to another owner.
C35_OwnerNeverReplaced ==
    [][\A i \in DOMAIN items :
          items'[i] # items[i]
          => \/ /\ items[i] = NoMember
                /\ last_op'.op = "assign"
                /\ Picking
                /\ items'[i] = Picker
             \/ /\ items'[i] = NoMember
                /\ last_op'.op = "undo"]_vars

\* The order of the round rnd over the positions 0..N-1: upwards in an even
\* round, downwards in an odd one.
RoundStep(rnd) == IF rnd % 2 = 0 THEN 1 ELSE -1
RoundFirst(rnd) == IF rnd % 2 = 0 THEN 0 ELSE NumRolls - 1
RoundLast(rnd) == IF rnd % 2 = 0 THEN NumRolls - 1 ELSE 0

C37_DirectionFollowsRound ==
    /\ direction \in {1, -1}
    /\ round >= 0
    /\ (direction = 1) <=> (round % 2 = 0)

\* An undo has put back the snapshot of an odd round.
C37_Witness ==
    /\ last_op.op = "undo"
    /\ last_op.response = "ok"
    /\ round = 1
    /\ direction = -1

\* C38: a session that has left TURN_NOT_STARTED does not come back to it:
\* no step of a started session sets current_turn to -1, the snapshot in
\* last_action never has a turn below 0, and the step after a start is not
\* an undo that is carried out.
C38_StartIsIrreversible ==
    [][/\ current_turn # TURN_NOT_STARTED => current_turn' # TURN_NOT_STARTED
       /\ last_action' # <<>> => last_action'[1].turn >= 0
       /\ (last_op.op = "start" /\ last_op.response = "ok") => last_op'.op # "undo"]_vars

\* An undo has put back the snapshot of the first turn, the oldest there is.
C38_Witness ==
    /\ last_op.op = "undo"
    /\ last_op.response = "ok"
    /\ current_turn = 0
    /\ round = 0
    /\ last_action = <<>>

\* C39: when the removal dropdown sends only values it offers, the owner
\* stays a participant whatever is removed: the roster is never empty and
\* the session is never cancelled.
C39_OwnerIsNeverRemoved ==
    /\ \E k \in 1..NumRolls : rolls[k] = invoker_id
    /\ ~cancelling
    /\ ~IsCancelled
    /\ control_content # CancelledNotice

\* Every participant the dropdown offered was removed: the owner is alone.
C39_Witness ==
    /\ last_op.op = "remove_confirm"
    /\ last_op.response = "ok"
    /\ rolls = <<invoker_id>>
    /\ members_to_remove = {}
    /\ loot_sessions
====
